---- MODULE Spec2Model ----
(***************************************************************************)
(* Model of sample.py: main() trains and registers a model with an MLflow  *)
(* registry, then calls wait_model_transition twice (previous version to   *)
(* "None", latest version to "Staging").  wait_model_transition polls the  *)
(* version status for at most 10 attempts and requests the stage           *)
(* transition on the first READY.                                          *)
(*                                                                         *)
(* Model names are sequences of path components ("a/b/c" is <<a, b, c>>).  *)
(* Versions are the integers 1..Len(registry[name]); the client's version  *)
(* strings and int() (line 159) coincide with them below 10 versions.      *)
(***************************************************************************)
EXTENDS Integers, Sequences, FiniteSets, TLC

\* Bound: number of versions each registry name may hold before main() runs.
MaxPre == 2

\* range(10), line 29.
MaxAttempts == 10

Statuses == {"PENDING_REGISTRATION", "FAILED_REGISTRATION", "READY"}

\* os.getenv("HOME"), as one path component.
Home == "HOME"

\* os.path.join: the components in order.
os_path_join(parts) == parts

artifact_name == <<"clf-model">>

artifact_path == os_path_join(<<Home, "mlflow_artifacts", "clf-model">>)

ModelNames == {artifact_name, artifact_path}

\* A version as the registry holds it.
ModelVersion(st, sg, d) == [status |-> st, stage |-> sg, description |-> d]

\* Versions a registry can hold before the script runs: a stage other than
\* "None" is only ever given to a READY version.
PreVersions ==
  {ModelVersion(st, "None", "") : st \in Statuses} \cup {ModelVersion("READY", "Staging", "")}

VersionLists(S) == UNION {[1..n -> S] : n \in 0..MaxPre}

VARIABLES
  pc,                 \* position of main()
  expExists,          \* tracking server: experiment "my-experiment" exists
  mlf_experiment,     \* main's local: "None" or "experiment"
  runActive,          \* inside the `with mlflow.start_run(...)` scope
  registry,           \* model name -> sequence of versions
  registered,         \* <<name, version>> that register_model created, or <<>>
  new_model_version,  \* main's local (0 before the search)
  errAt,              \* where an uncaught exception left main(), "" if none
  logged,             \* logger.error ran in the except clause
  call,               \* which wait_model_transition call is running (0, 1, 2)
  result,             \* call -> "none" | "running" | "returned" | "raised"
  model_name, model_version, stage,   \* arguments of the running call
  i,                  \* attempt number of the for loop, 1..MaxAttempts
  status,             \* local `status` of the current attempt ("" before the fetch)
  wpc,                \* position inside the loop body: "fetch" | "check"
  obs,                \* statuses fetched by the running call, in order
  fetches,            \* get_model_version calls of the running call
  sleeps,             \* time.sleep(1) calls of the running call
  stage0,             \* registry stage of the polled version when the call began
  requests            \* transition_model_version_stage requests, in order

vars == <<pc, expExists, mlf_experiment, runActive, registry, registered,
          new_model_version, errAt, logged, call, result, model_name,
          model_version, stage, i, status, wpc, obs, fetches, sleeps, stage0,
          requests>>

mainVars == <<expExists, mlf_experiment, runActive, registered, new_model_version, logged>>

waitVars == <<call, result, model_name, model_version, stage, i, status, wpc,
              obs, fetches, sleeps, stage0, requests>>

Max(S) == CHOOSE x \in S : \A y \in S : y <= x

Exists(name, version) == version \in 1..Len(registry[name])

Init ==
  /\ pc = "get_experiment"
  /\ expExists \in BOOLEAN
  /\ mlf_experiment = "None"
  /\ runActive = FALSE
  /\ \E a \in VersionLists({ModelVersion("READY", "None", "")}),
        b \in VersionLists(PreVersions) :
       registry = (artifact_name :> a) @@ (artifact_path :> b)
  /\ registered = <<>>
  /\ new_model_version = 0
  /\ errAt = ""
  /\ logged = FALSE
  /\ call = 0
  /\ result = [c \in {1, 2} |-> "none"]
  /\ model_name = <<>>
  /\ model_version = 0
  /\ stage = ""
  /\ i = 0
  /\ status = ""
  /\ wpc = "idle"
  /\ obs = <<>>
  /\ fetches = 0
  /\ sleeps = 0
  /\ stage0 = ""
  /\ requests = <<>>


(***************************************************************************)
(* main(), lines 94-154: experiment, run, registration, search, update     *)
(***************************************************************************)

\* client.get_experiment_by_name(experiment_name), line 97.
GetExperimentByName ==
  /\ pc = "get_experiment"
  /\ mlf_experiment' = IF expExists THEN "experiment" ELSE "None"
  /\ pc' = IF expExists THEN "log_experiment" ELSE "create_experiment"
  /\ UNCHANGED <<expExists, runActive, registry, registered, new_model_version,
                 errAt, logged>>
  /\ UNCHANGED waitVars

\* if mlf_experiment is None: client.create_experiment(...), lines 100-106.
\* The id goes to experiment_id; mlf_experiment stays None.
CreateExperiment ==
  /\ pc = "create_experiment"
  /\ expExists' = TRUE
  /\ pc' = "log_experiment"
  /\ UNCHANGED <<mlf_experiment, runActive, registry, registered,
                 new_model_version, errAt, logged>>
  /\ UNCHANGED waitVars

\* logger.info(f"... {mlf_experiment.experiment_id} ..."), line 107: reading an
\* attribute of None raises AttributeError, which nothing catches.
\* Then mlflow.set_experiment, line 109.
LogExperimentId ==
  /\ pc = "log_experiment"
  /\ IF mlf_experiment = "None"
       THEN pc' = "error" /\ errAt' = "experiment_id"
       ELSE pc' = "start_run" /\ errAt' = errAt
  /\ UNCHANGED <<expExists, mlf_experiment, runActive, registry, registered,
                 new_model_version, logged>>
  /\ UNCHANGED waitVars

\* with mlflow.start_run(...) as run, lines 112-113.
StartRun ==
  /\ pc = "start_run"
  /\ runActive' = TRUE
  /\ pc' = "fit"
  /\ UNCHANGED <<expExists, mlf_experiment, registry, registered,
                 new_model_version, errAt, logged>>
  /\ UNCHANGED waitVars

\* model.fit, metrics, log_model, lines 117-140.
FitAndLog ==
  /\ pc = "fit"
  /\ runActive
  /\ pc' = "register"
  /\ UNCHANGED <<registry, errAt>>
  /\ UNCHANGED mainVars
  /\ UNCHANGED waitVars

\* The name mlflow.register_model is given, line 143.
RegisterName == artifact_name

\* mlflow.register_model(model_uri, name=artifact_name), lines 142-143, the last
\* statement of the with block: the run scope closes after it.
RegisterModel ==
  /\ pc = "register"
  /\ registry' = [registry EXCEPT ![RegisterName] =
                    Append(@, ModelVersion("PENDING_REGISTRATION", "None", ""))]
  /\ registered' = <<RegisterName, Len(registry[RegisterName]) + 1>>
  /\ runActive' = FALSE
  /\ pc' = "search"
  /\ UNCHANGED <<expExists, mlf_experiment, new_model_version, errAt, logged>>
  /\ UNCHANGED waitVars

\* The name the script uses with the registry after registration, lines 146-164.
SearchName == artifact_path

\* client.search_model_versions("name = '%s'" % name): the versions under name.
search_model_versions(name) == IF name \in DOMAIN registry THEN 1..Len(registry[name]) ELSE {}

\* lines 146-147: max() of an empty list raises ValueError, uncaught.
SearchModelVersions ==
  /\ pc = "search"
  /\ LET model_version_infos == search_model_versions(SearchName)
     IN IF model_version_infos = {}
          THEN pc' = "error" /\ errAt' = "max" /\ UNCHANGED new_model_version
          ELSE pc' = "update" /\ errAt' = errAt
               /\ new_model_version' = Max(model_version_infos)
  /\ UNCHANGED <<expExists, mlf_experiment, runActive, registry, registered, logged>>
  /\ UNCHANGED waitVars

\* client.update_model_version(name, version, description), lines 150-154.
UpdateModelVersion ==
  /\ pc = "update"
  /\ registry' = [registry EXCEPT ![SearchName][new_model_version].description = "Random forest"]
  /\ pc' = "call_previous"
  /\ UNCHANGED errAt
  /\ UNCHANGED mainVars
  /\ UNCHANGED waitVars


(***************************************************************************)
(* The registry service                                                    *)
(***************************************************************************)

\* A version's registration settles in the background: PENDING_REGISTRATION
\* becomes READY or FAILED_REGISTRATION, and both are final.
RegistryProgress ==
  /\ \E n \in ModelNames : \E v \in 1..Len(registry[n]) : \E st \in {"READY", "FAILED_REGISTRATION"} :
       /\ registry[n][v].status = "PENDING_REGISTRATION"
       /\ registry' = [registry EXCEPT ![n][v].status = st]
  /\ UNCHANGED <<pc, errAt>>
  /\ UNCHANGED mainVars
  /\ UNCHANGED waitVars

(***************************************************************************)
(* wait_model_transition(model_name, model_version, stage), lines 27-42    *)
(***************************************************************************)

\* Mutant: the test is "not pending" instead of "ready".
IsReady_NotPending(s) == s # "PENDING_REGISTRATION"

\* if status == ModelVersionStatus.READY, line 35.
IsReady(s) == s = "READY"

\* Mutant: the loop is one attempt short.
MoreAttempts_OneShort(k) == k < MaxAttempts - 1

\* for _ in range(10), line 29: another attempt follows attempt k.
MoreAttempts(k) == k < MaxAttempts

\* Mutant: the stage is hard-coded instead of taken from the argument.
TransitionRequest_FixedStage(name, version, stg) ==
  [name |-> name, version |-> version, stage |-> "Staging"]

\* The arguments of client.transition_model_version_stage, lines 36-40.
TransitionRequest(name, version, stg) == [name |-> name, version |-> version, stage |-> stg]

\* Mutant: the first call is not wrapped in try/except either.
OnWaitException_NoTry(c) == "error"

\* Where main() continues when a wait_model_transition call raises: the first
\* call is inside try/except Exception (lines 157-161), the second is not (164).
OnWaitException(c) == IF c = 1 THEN "except" ELSE "error"

\* Entry of the function: a fresh client and the first iteration of the loop.
Enter(c, name, version, stg) ==
  /\ call' = c
  /\ result' = [result EXCEPT ![c] = "running"]
  /\ model_name' = name
  /\ model_version' = version
  /\ stage' = stg
  /\ i' = 1
  /\ status' = ""
  /\ wpc' = "fetch"
  /\ obs' = <<>>
  /\ fetches' = 0
  /\ sleeps' = 0
  /\ stage0' = IF Exists(name, version) THEN registry[name][version].stage ELSE ""
  /\ UNCHANGED requests

\* The function returns to main(): past the try statement after the first
\* call, to the end of main() after the second.
Return ==
  /\ result' = [result EXCEPT ![call] = "returned"]
  /\ wpc' = "idle"
  /\ pc' = IF call = 1 THEN "call_current" ELSE "done"
  /\ UNCHANGED <<i, status>>

\* time.sleep(1), line 42, then the next iteration of the for loop, or its end.
SleepAndLoop ==
  /\ sleeps' = sleeps + 1
  /\ IF MoreAttempts(i)
       THEN i' = i + 1 /\ status' = "" /\ wpc' = "fetch" /\ UNCHANGED <<pc, result>>
       ELSE Return

\* Mutant: the break is missing, the READY branch falls through to the sleep.
Break_Missing == SleepAndLoop

\* Mutant: the sleep comes before the status test, so the READY attempt sleeps too.
Break_AfterSleep ==
  /\ sleeps' = sleeps + 1
  /\ Return

\* break, line 41: leaves the loop without reaching the sleep.
Break ==
  /\ sleeps' = sleeps
  /\ Return

\* client.get_model_version returns, lines 30-34.
GetModelVersion ==
  /\ pc \in {"wait_previous", "wait_current"}
  /\ wpc = "fetch"
  /\ Exists(model_name, model_version)
  /\ status' = registry[model_name][model_version].status
  /\ obs' = Append(obs, status')
  /\ fetches' = fetches + 1
  /\ wpc' = "check"
  /\ UNCHANGED <<pc, registry, errAt, call, result, model_name, model_version,
                 stage, i, sleeps, stage0, requests>>
  /\ UNCHANGED mainVars

\* client.get_model_version raises, line 30: the version does not exist, or the
\* registry does not answer.  Nothing in the function catches it.
GetModelVersionRaises ==
  /\ pc \in {"wait_previous", "wait_current"}
  /\ wpc = "fetch"
  /\ fetches' = fetches + 1
  /\ result' = [result EXCEPT ![call] = "raised"]
  /\ wpc' = "idle"
  /\ pc' = OnWaitException(call)
  /\ errAt' = IF pc' = "error" THEN "wait_model_transition" ELSE errAt
  /\ UNCHANGED <<registry, call, model_name, model_version, stage, i, status,
                 obs, sleeps, stage0, requests>>
  /\ UNCHANGED mainVars

\* The READY branch, lines 35-41: the transition request, then break.
TransitionModelVersionStage ==
  /\ pc \in {"wait_previous", "wait_current"}
  /\ wpc = "check"
  /\ IsReady(status)
  /\ LET req == TransitionRequest(model_name, model_version, stage)
     IN /\ requests' = Append(requests,
                         req @@ [call |-> call, attempt |-> i, fetched |-> status, seen |-> obs])
        /\ registry' = IF Exists(req.name, req.version)
                         THEN [registry EXCEPT ![req.name][req.version].stage = req.stage]
                         ELSE registry
  /\ Break
  /\ UNCHANGED <<errAt, call, model_name, model_version, stage, obs, fetches, stage0>>
  /\ UNCHANGED mainVars

\* Any other status, line 42: sleep and go round the loop.
Sleep ==
  /\ pc \in {"wait_previous", "wait_current"}
  /\ wpc = "check"
  /\ ~IsReady(status)
  /\ SleepAndLoop
  /\ UNCHANGED <<registry, errAt, call, model_name, model_version, stage, obs,
                 fetches, stage0, requests>>
  /\ UNCHANGED mainVars

(***************************************************************************)
(* main(), lines 156-164: the two calls                                    *)
(***************************************************************************)

\* wait_model_transition(artifact_path, int(new_model_version) - 1, "None"), line 159.
CallWaitPrevious ==
  /\ pc = "call_previous"
  /\ Enter(1, SearchName, new_model_version - 1, "None")
  /\ pc' = "wait_previous"
  /\ UNCHANGED <<registry, errAt>>
  /\ UNCHANGED mainVars

\* except Exception as e: logger.error(...), lines 160-161.
LogException ==
  /\ pc = "except"
  /\ logged' = TRUE
  /\ pc' = "call_current"
  /\ UNCHANGED <<expExists, mlf_experiment, runActive, registry, registered,
                 new_model_version, errAt>>
  /\ UNCHANGED waitVars

\* wait_model_transition(artifact_path, new_model_version, "Staging"), line 164.
CallWaitCurrent ==
  /\ pc = "call_current"
  /\ Enter(2, SearchName, new_model_version, "Staging")
  /\ pc' = "wait_current"
  /\ UNCHANGED <<registry, errAt>>
  /\ UNCHANGED mainVars

Next ==
  \/ GetExperimentByName
  \/ CreateExperiment
  \/ LogExperimentId
  \/ StartRun
  \/ FitAndLog
  \/ RegisterModel
  \/ SearchModelVersions
  \/ UpdateModelVersion
  \/ CallWaitPrevious
  \/ LogException
  \/ CallWaitCurrent
  \/ GetModelVersion
  \/ GetModelVersionRaises
  \/ TransitionModelVersionStage
  \/ Sleep
  \/ RegistryProgress

Spec == Init /\ [][Next]_vars

(***************************************************************************)
(* Properties                                                              *)
(***************************************************************************)

\* The attempt at which READY was first fetched, 0 if it was not.
ReadyAt(s) ==
  IF \E k \in 1..Len(s) : s[k] = "READY"
    THEN CHOOSE k \in 1..Len(s) : s[k] = "READY" /\ \A j \in 1..(k - 1) : s[j] # "READY"
    ELSE 0

\* The transition requests issued by call c.
RequestsOf(c) == {k \in 1..Len(requests) : requests[k].call = c}

Returned == call # 0 /\ result[call] = "returned"

\* C1: once a call has fetched READY at attempt k it makes no further fetch
\* (exactly k fetches) and never more than one transition request; when it has
\* returned it has issued exactly one request, carrying the name, version and
\* stage the call was given.
C1_ReadyTransitionsOnce ==
  (call # 0 /\ ReadyAt(obs) # 0) =>
    /\ fetches = ReadyAt(obs)
    /\ Len(obs) = ReadyAt(obs)
    /\ Cardinality(RequestsOf(call)) <= 1
    /\ \A k \in RequestsOf(call) :
         /\ requests[k].name = model_name
         /\ requests[k].version = model_version
         /\ requests[k].stage = stage
         /\ requests[k].attempt = ReadyAt(obs)
    /\ Returned => Cardinality(RequestsOf(call)) = 1

\* C1 witness: the first call returned after READY at the last attempt, with
\* its request to "None" issued.
C1_Witness ==
  /\ call = 1
  /\ Returned
  /\ ReadyAt(obs) = MaxAttempts
  /\ Len(requests) = 1
  /\ requests[1].stage = "None"

\* C2: a call that has not fetched READY has issued no transition request and
\* left the version's stage as it was; it returns only after MaxAttempts
\* fetches, and once the MaxAttempts status responses are in and the last
\* attempt is over it has returned normally to main().
C2_ExhaustionIsSilent ==
  (call # 0 /\ ReadyAt(obs) = 0) =>
    /\ RequestsOf(call) = {}
    /\ Exists(model_name, model_version) => registry[model_name][model_version].stage = stage0
    /\ Returned => (fetches = MaxAttempts /\ Len(obs) = MaxAttempts)
    /\ (Len(obs) = MaxAttempts /\ wpc = "idle") =>
         /\ Returned
         /\ fetches = MaxAttempts
         /\ errAt = ""
         /\ pc \in {"call_current", "done"}

\* C2 witness: the second call returned after MaxAttempts responses mixing
\* PENDING_REGISTRATION and FAILED_REGISTRATION.
C2_Witness ==
  /\ call = 2
  /\ Returned
  /\ Len(obs) = MaxAttempts
  /\ obs[1] = "PENDING_REGISTRATION"
  /\ obs[MaxAttempts] = "FAILED_REGISTRATION"
  /\ pc = "done"

\* C3: a call never sleeps more than MaxAttempts - 1 times.
C3_AtMostNineSleeps == sleeps <= MaxAttempts - 1

\* C4: every transition request was issued in an attempt that fetched READY,
\* and the call that issued it had fetched no FAILED_REGISTRATION before.
C4_TransitionOnlyWhenReady ==
  \A k \in 1..Len(requests) :
    LET r == requests[k]
    IN /\ r.fetched = "READY"
       /\ r.attempt = Len(r.seen)
       /\ r.seen[r.attempt] = "READY"
       /\ \A j \in 1..Len(r.seen) : r.seen[j] # "FAILED_REGISTRATION"

\* C4 witness: the first call transitioned after pending attempts, the second
\* saw PENDING_REGISTRATION then FAILED_REGISTRATION and ended with no request.
C4_Witness ==
  /\ Len(requests) = 1
  /\ requests[1].call = 1
  /\ requests[1].attempt > 1
  /\ call = 2
  /\ Returned
  /\ obs[1] = "PENDING_REGISTRATION"
  /\ obs[2] = "FAILED_REGISTRATION"

\* C5: when the first call has raised, main() is in its except clause or has
\* logged the error and started the second call; the exception of the first
\* call never ends main().
C5_FirstFailureDoesNotStopSecond ==
  result[1] = "raised" =>
    /\ pc = "except" \/ (logged /\ (pc = "call_current" \/ result[2] # "none"))
    /\ pc = "error" => call = 2

\* C5 witness: the previous version is version 0, its lookup raised, and the
\* second call went on to move version 1 to "Staging".
C5_Witness ==
  /\ result[1] = "raised"
  /\ new_model_version = 1
  /\ call = 2
  /\ Returned
  /\ Len(requests) = 1
  /\ requests[1].version = 1
  /\ requests[1].stage = "Staging"

\* C6: main() never ends with an exception raised by a poll.
C6_PollingFailuresSwallowed == pc = "error" => errAt # "wait_model_transition"

\* C7: a call that returns after first fetching READY at attempt k has slept
\* exactly k - 1 times.
C7_SleepsBeforeReady ==
  (Returned /\ ReadyAt(obs) # 0) => sleeps = ReadyAt(obs) - 1

\* C7 witness: [PENDING, PENDING, READY] gave 2 sleeps and one transition to
\* "Staging".
C7_Witness ==
  /\ call = 2
  /\ Returned
  /\ obs = <<"PENDING_REGISTRATION", "PENDING_REGISTRATION", "READY">>
  /\ sleeps = 2
  /\ Cardinality(RequestsOf(2)) = 1
  /\ requests[Len(requests)].stage = "Staging"

\* C8: main() never ends with the exception raised for an absent experiment.
C8_AbsentExperimentContinues == pc = "error" => errAt # "experiment_id"

\* C9: the first call starts only after registration, with the run closed; the
\* second call starts only after the first has ended; a "Staging" request is
\* issued only after the first call has ended; the calls poll version - 1 for
\* "None" and version for "Staging"; no version gets two transition requests.
C9_PollsInOrder ==
  /\ result[1] # "none" => (registered # <<>> /\ ~runActive)
  /\ result[2] # "none" => result[1] \in {"returned", "raised"}
  /\ \A k \in 1..Len(requests) :
       requests[k].stage = "Staging" => result[1] \in {"returned", "raised"}
  /\ call = 1 => (stage = "None" /\ model_version = new_model_version - 1)
  /\ call = 2 => (stage = "Staging" /\ model_version = new_model_version)
  /\ \A j, k \in 1..Len(requests) :
       (requests[j].name = requests[k].name /\ requests[j].version = requests[k].version)
         => j = k

\* C9 witness: both calls transitioned and main() is done.
C9_Witness ==
  /\ pc = "done"
  /\ Len(requests) = 2
  /\ requests[1].stage = "None"
  /\ requests[2].stage = "Staging"
  /\ requests[1].version + 1 = requests[2].version

\* C10: after registration the search is not empty and the version main()
\* goes on with is the one register_model created, under the same name.
C10_SameNameAfterRegistration ==
  registered # <<>> =>
    /\ errAt # "max"
    /\ new_model_version # 0 => <<SearchName, new_model_version>> = registered

====
